---- MODULE Spec2Model ----
(***************************************************************************)
(* StereoFrameQueue of pynaneye (src/src/pynaneye/frame_queue.py): two     *)
(* bounded deques of timestamped frames, a lock, a threading.Event, the    *)
(* constructor, the producers' put and the consumers' get, with get's wait *)
(* / clear / scan / remove steps and its timeout arithmetic.               *)
(*                                                                         *)
(* Time is counted in whole units of the monotonic clock.  A unit may pass  *)
(* between any two steps, while a thread is blocked in Event.wait, waits    *)
(* for the lock or stands between two statements.                          *)
(***************************************************************************)
EXTENDS Integers, Sequences, FiniteSets, TLC

\* ---------------------------------------------------------------- bounds
FewPuts == 2          \* frames put with sensor_id 0 or 1 in a run in which time passes
MaxPuts == 4          \* frames put with sensor_id 0 or 1 in a run in which none passes
MaxTS == 1            \* frame timestamps are 0..MaxTS
MaxTol == 1           \* timestamp_tolerance_us is 0..MaxTol
MaxBuf == 2           \* a buffer_size that __init__ accepts is 1..MaxBuf
MaxBelow == 2         \* __init__ is called with buffer_size from 1 - MaxBelow on
MaxTime == 2          \* a finite timeout is 0..MaxTime units of the monotonic clock
MaxDiscards == 1      \* puts of an unknown sensor_id that the history sent records

Producers == {"p1", "p2"}
Consumers == {"c1", "c2"}
Free == "free"
None == -1            \* timeout=None
Timeouts == {None, 0, MaxTime}
SensorIds == {0, 1, 2}   \* 0 Left, 1 Right, 2 stands for every other value

VARIABLES
    buffer_size_arg,  \* the buffer_size that __init__ was called with
    raised,           \* what __init__ raised: "none" or "ValueError"
    buffer_size,      \* maxlen of both deques; 0 when __init__ has made no deque
    tolerance,        \* self._timestamp_tolerance_us
    left_frames,      \* self._left_frames, oldest first
    right_frames,     \* self._right_frames, oldest first
    lock,             \* holder of self._lock, or Free
    flag,             \* self._new_frame_event's internal flag
    signaled,         \* consumer -> a set() notified it while it was blocked in wait
    pc,               \* consumer -> its position in get
    timeout,          \* consumer -> get's local variable timeout
    timeout_arg,      \* consumer -> the timeout the call was started with
    best_pair,        \* consumer -> best_left_frame and best_right_frame of the matcher
                      \* between its scan and its removals, NoPair otherwise
    clock,            \* consumer -> time.monotonic() - start_time of a call with a
                      \* timeout, MaxTime + 1 standing for that and every later time;
                      \* 0 outside get and in a call with timeout None, which never
                      \* reads the clock again
    waited,           \* history: consumer -> the time its call has spent blocked in
                      \* Event.wait so far
    wait_left,        \* consumer -> time left of the wait in progress, or None
    result,           \* consumer -> outcome of its last get
    nput,             \* frames appended so far; the next one gets id nput + 1
    delivered,        \* history: the pairs returned, in order
    owed,             \* history: consumer -> id of the last frame whose put made a pair
                      \* while the consumer's call was in progress, 0 when there is none
                      \* or the frame has left the buffers or has no partner any more
    sent              \* history: the frames put since construction, in order, as long
                      \* as get has not been called; empty from the first get on

vars == <<buffer_size_arg, raised, buffer_size, tolerance, left_frames, right_frames,
          lock, flag, signaled,
          pc, timeout, timeout_arg, best_pair, clock, waited, wait_left, result,
          nput, delivered, owed, sent>>

config == <<buffer_size_arg, raised, buffer_size, tolerance>>
buffers == <<left_frames, right_frames>>
locals == <<timeout, timeout_arg, best_pair>>

\* ---------------------------------------------------------------- frames
NoFrame == [id |-> 0, timestamp |-> 0, sensor_id |-> -1]

NoPair == [left |-> NoFrame, right |-> NoFrame]

\* A NanEyeFrameDict; id is the identity of the dict object, which is no key of it.
Frame(i, ts, sid) == [id |-> i, timestamp |-> ts, sensor_id |-> sid]

\* dict.__eq__ as deque.remove uses it: equal keys and values.  image_bytes, width
\* and height are taken equal in all frames, so two frames of one sensor with one
\* timestamp compare equal although they are two objects.
DictEq(a, b) == a.timestamp = b.timestamp /\ a.sensor_id = b.sensor_id

Abs(x) == IF x < 0 THEN -x ELSE x

\* ---------------------------------------------------------------- deque
\* mutant: append on a deque without maxlen
DequeAppendUnbounded(buf, f, maxlen) == Append(buf, f)

\* mutant: at maxlen the rightmost element makes room
DequeAppendEvictsNewest(buf, f, maxlen) ==
    IF Len(buf) >= maxlen THEN Append(SubSeq(buf, 1, Len(buf) - 1), f) ELSE Append(buf, f)

\* deque(maxlen=n).append: at maxlen the leftmost element is discarded.
DequeAppend(buf, f, maxlen) ==
    IF Len(buf) >= maxlen THEN Append(Tail(buf), f) ELSE Append(buf, f)

RECURSIVE IndexOf(_, _, _)
\* index of the first element of buf from position k on that equals f, 0 if none
IndexOf(buf, f, k) ==
    IF k > Len(buf) THEN 0
    ELSE IF DictEq(buf[k], f) THEN k
    ELSE IndexOf(buf, f, k + 1)

RECURSIVE LastIndexOf(_, _, _)
LastIndexOf(buf, f, k) ==
    IF k < 1 THEN 0
    ELSE IF DictEq(buf[k], f) THEN k
    ELSE LastIndexOf(buf, f, k - 1)

\* mutant: the last equal element goes instead of the first
DequeRemoveLast(buf, f) ==
    LET k == LastIndexOf(buf, f, Len(buf))
    IN IF k = 0 THEN buf
       ELSE SubSeq(buf, 1, k - 1) \o SubSeq(buf, k + 1, Len(buf))

\* mutant: every equal element goes
DequeRemoveAllEqual(buf, f) == SelectSeq(buf, LAMBDA g : ~DictEq(g, f))

\* deque.remove(f) inside try/except ValueError: the first equal element goes,
\* and nothing happens when there is none.
DequeRemove(buf, f) ==
    LET k == IndexOf(buf, f, 1)
    IN IF k = 0 THEN buf
       ELSE SubSeq(buf, 1, k - 1) \o SubSeq(buf, k + 1, Len(buf))

\* ---------------------------------------------------------------- matcher
\* min_time_diff starts at float("inf"): found = FALSE stands for it.
NoBest == [found |-> FALSE, diff |-> 0, left |-> NoFrame, right |-> NoFrame]

\* mutant: the comparison turned round
ImprovesBackwards(time_diff, best) == ~best.found \/ time_diff > best.diff

\* mutant: <= for <, the last pair of the smallest difference wins
ImprovesOnTies(time_diff, best) == ~best.found \/ time_diff <= best.diff

\* line 140: time_diff < min_time_diff
Improves(time_diff, best) == ~best.found \/ time_diff < best.diff

RECURSIVE ScanPairsRightOuter(_, _, _, _)
\* mutant: the loops the other way round, right outer and left inner
ScanPairsRightOuter(ls, rs, k, best) ==
    IF k > Len(ls) * Len(rs) THEN best
    ELSE LET l == ls[((k - 1) % Len(ls)) + 1]
             r == rs[((k - 1) \div Len(ls)) + 1]
             time_diff == Abs(l.timestamp - r.timestamp)
         IN ScanPairsRightOuter(ls, rs, k + 1,
                      IF Improves(time_diff, best)
                      THEN [found |-> TRUE, diff |-> time_diff, left |-> l, right |-> r]
                      ELSE best)

RECURSIVE ScanPairs(_, _, _, _)
\* lines 137-143: the nested loops, left outer and right inner, from the k-th
\* combination on.
ScanPairs(ls, rs, k, best) ==
    IF k > Len(ls) * Len(rs) THEN best
    ELSE LET l == ls[((k - 1) \div Len(rs)) + 1]
             r == rs[((k - 1) % Len(rs)) + 1]
             time_diff == Abs(l.timestamp - r.timestamp)
         IN ScanPairs(ls, rs, k + 1,
                      IF Improves(time_diff, best)
                      THEN [found |-> TRUE, diff |-> time_diff, left |-> l, right |-> r]
                      ELSE best)

\* mutant: the tolerance is off by one
WithinToleranceOffByOne(time_diff, tol) == time_diff <= tol + 1

\* mutant: a difference equal to the tolerance is refused
WithinToleranceStrict(time_diff, tol) == time_diff < tol

\* line 147: min_time_diff <= self._timestamp_tolerance_us
WithinTolerance(time_diff, tol) == time_diff <= tol

\* lines 126-147: the pair the scan of the buffers ls, rs settles on, found =
\* FALSE when there is none within the tolerance.
FindBestPair(ls, rs, tol) ==
    LET b == ScanPairs(ls, rs, 1, NoBest)
    IN IF b.found /\ WithinTolerance(b.diff, tol)
       THEN [found |-> TRUE, left |-> b.left, right |-> b.right]
       ELSE [found |-> FALSE, left |-> NoFrame, right |-> NoFrame]

\* _find_and_remove_best_pair on the buffers ls, rs, run in one piece: the pair
\* it returns (found = FALSE for (None, None)) and the buffers it leaves.
FindAndRemoveBestPair(ls, rs, tol) ==
    LET b == FindBestPair(ls, rs, tol)
    IN IF b.found
       THEN [found |-> TRUE, left |-> b.left, right |-> b.right,
             lefts |-> DequeRemove(ls, b.left),
             rights |-> DequeRemove(rs, b.right)]
       ELSE [found |-> FALSE, left |-> NoFrame, right |-> NoFrame,
             lefts |-> ls, rights |-> rs]

\* mutant: the timeout is not decremented
RemainingTimeoutNotDecremented(t, elapsed) == t

\* line 107: remaining_timeout = timeout - elapsed_time
RemainingTimeout(t, elapsed) == t - elapsed

\* ---------------------------------------------------------------- state
\* mutant: buffer_size 0 is let through
InitRaisesBelowZero(bs) == bs < 0

\* line 39: buffer_size < 1
InitRaises(bs) == bs < 1

\* __init__ has returned or raised; no get or put has been called.  When it
\* raised, at line 40, no deque, lock or event was made and no attribute was set.
Init ==
    /\ buffer_size_arg \in (1 - MaxBelow)..MaxBuf
    /\ IF InitRaises(buffer_size_arg)
       THEN raised = "ValueError" /\ buffer_size = 0 /\ tolerance = 0
       ELSE /\ raised = "none"
            /\ buffer_size = buffer_size_arg
            /\ tolerance \in 0..MaxTol
    /\ left_frames = <<>>
    /\ right_frames = <<>>
    /\ lock = Free
    /\ flag = FALSE
    /\ signaled = [c \in Consumers |-> FALSE]
    /\ pc = [c \in Consumers |-> "idle"]
    /\ timeout = [c \in Consumers |-> None]
    /\ timeout_arg = [c \in Consumers |-> None]
    /\ best_pair = [c \in Consumers |-> NoPair]
    /\ clock = [c \in Consumers |-> 0]
    /\ waited = [c \in Consumers |-> 0]
    /\ wait_left = [c \in Consumers |-> None]
    /\ result = [c \in Consumers |-> "none"]
    /\ nput = 0
    /\ delivered = <<>>
    /\ owed = [c \in Consumers |-> 0]
    /\ sent = <<>>

\* no thread has called get yet: a call sets result to "none" on entry and to its
\* outcome on exit
NoGetYet == \A c \in Consumers : pc[c] = "idle" /\ result[c] = "none"

\* the frames in a history of puts that were discarded; they got no id
Discarded(seq) == SelectSeq(seq, LAMBDA f : f.id = 0)

\* the frame with this id is buffered, and so is a frame of the other sensor
\* within tolerance of it
PairedIn(id, ls, rs, tol) ==
    \E i \in 1..Len(ls), j \in 1..Len(rs) :
        /\ id \in {ls[i].id, rs[j].id}
        /\ Abs(ls[i].timestamp - rs[j].timestamp) <= tol

StillOwed(id, ls, rs, tol) == IF id # 0 /\ PairedIn(id, ls, rs, tol) THEN id ELSE 0

\* some left/right combination in the buffers is within tolerance
Deliverable(ls, rs, tol) ==
    \E i \in 1..Len(ls), j \in 1..Len(rs) :
        Abs(ls[i].timestamp - rs[j].timestamp) <= tol

\* ---------------------------------------------------------------- lock
\* mutant: the lock is taken whether it is free or not
AcquireAnyway(t) == lock' = t

\* with self._lock, on entry (lines 61 and 97): thread t takes the lock when it
\* is free and waits otherwise.
Acquire(t) == lock = Free /\ lock' = t

\* mutant: the lock is kept on the way out
ReleaseNever == lock' = lock

\* with self._lock, on the way out of the block, by return, raise or its end.
Release == lock' = Free

\* ---------------------------------------------------------------- put
\* put, line 61: the producer takes the lock.  There is a queue to call only
\* when __init__ has returned.
PutAcquire(p) ==
    /\ raised = "none"
    /\ nput < MaxPuts
    /\ Acquire(p)
    /\ UNCHANGED <<config, buffers, flag, signaled, pc, locals, clock, waited, wait_left,
                   result, nput, delivered, owed,
                   sent>>

\* Event.set: the flag goes up and every thread blocked in wait is notified.
EventSet ==
    /\ flag' = TRUE
    /\ signaled' = [c \in Consumers |-> signaled[c] \/ pc[c] = "blocked"]

\* mutant: elif turned into else, every other sensor_id counts as Right
ChannelOfElseRight(sid) == IF sid = 0 THEN "left" ELSE "right"

\* lines 62-66: the buffer a frame goes to by its sensor_id, "none" for the else
\* branch
ChannelOf(sid) == IF sid = 0 THEN "left" ELSE IF sid = 1 THEN "right" ELSE "none"

\* put, lines 62-69, under the lock: append by sensor_id and set the event, or
\* discard the frame; the lock is released on the way out.  Bound of the model:
\* before the first get, where sent records them, at most MaxDiscards frames are
\* discarded.
PutBody(p, ts, sid) ==
    /\ lock = p
    /\ (ChannelOf(sid) = "none" /\ NoGetYet) => Len(Discarded(sent)) < MaxDiscards
    /\ LET frame == Frame(nput + 1, ts, sid)
       IN IF ChannelOf(sid) = "left"
          THEN /\ left_frames' = DequeAppend(left_frames, frame, buffer_size)
               /\ right_frames' = right_frames
               /\ EventSet
          ELSE IF ChannelOf(sid) = "right"
          THEN /\ right_frames' = DequeAppend(right_frames, frame, buffer_size)
               /\ left_frames' = left_frames
               /\ EventSet
          ELSE UNCHANGED <<buffers, flag, signaled>>
    /\ nput' = IF ChannelOf(sid) # "none" THEN nput + 1 ELSE nput
    /\ Release
    /\ owed' = [c \in Consumers |->
                  IF /\ ChannelOf(sid) # "none"
                     /\ pc[c] # "idle"
                     /\ PairedIn(nput + 1, left_frames', right_frames', tolerance)
                  THEN nput + 1
                  ELSE StillOwed(owed[c], left_frames', right_frames', tolerance)]
    /\ sent' = IF ~NoGetYet THEN <<>>
               ELSE IF ChannelOf(sid) # "none" THEN Append(sent, Frame(nput + 1, ts, sid))
               ELSE Append(sent, Frame(0, ts, sid))
    /\ UNCHANGED <<config, pc, locals, clock, waited, wait_left, result,
                   delivered>>

\* ---------------------------------------------------------------- get
\* get, line 87: a call with timeout t starts; start_time is read.
GetStart(c, t) ==
    /\ raised = "none"
    /\ pc[c] = "idle"
    /\ pc' = [pc EXCEPT ![c] = "wait"]
    /\ clock' = [clock EXCEPT ![c] = 0]
    /\ waited' = [waited EXCEPT ![c] = 0]
    /\ timeout' = [timeout EXCEPT ![c] = t]
    /\ timeout_arg' = [timeout_arg EXCEPT ![c] = t]
    /\ result' = [result EXCEPT ![c] = "none"]
    /\ sent' = <<>>
    /\ UNCHANGED <<config, buffers, lock, flag, signaled, best_pair, wait_left, nput,
                   delivered, owed>>

\* line 91, Event.wait(timeout) is entered: it returns at once when the flag is
\* up, and blocks otherwise.
WaitEnter(c) ==
    /\ pc[c] = "wait"
    /\ IF flag
       THEN /\ pc' = [pc EXCEPT ![c] = "clear"]
            /\ UNCHANGED <<wait_left, signaled>>
       ELSE /\ pc' = [pc EXCEPT ![c] = "blocked"]
            /\ wait_left' = [wait_left EXCEPT ![c] = timeout[c]]
            /\ signaled' = [signaled EXCEPT ![c] = FALSE]
    /\ UNCHANGED <<config, buffers, lock, flag, locals, clock, waited, result, nput, delivered,
                   owed, sent>>

\* line 91, Event.wait returns: a set() notified the waiter, or its timeout ran out.
WaitReturn(c) ==
    /\ pc[c] = "blocked"
    /\ \/ signaled[c]
       \/ wait_left[c] = 0
    /\ pc' = [pc EXCEPT ![c] = "clear"]
    /\ wait_left' = [wait_left EXCEPT ![c] = None]
    /\ signaled' = [signaled EXCEPT ![c] = FALSE]
    /\ UNCHANGED <<config, buffers, lock, flag, locals, clock, waited, result, nput, delivered,
                   owed, sent>>

\* line 95: self._new_frame_event.clear()
EventClear(c) ==
    /\ pc[c] = "clear"
    /\ flag' = FALSE
    /\ pc' = [pc EXCEPT ![c] = "lock"]
    /\ UNCHANGED <<config, buffers, lock, signaled, locals, clock, waited, wait_left, result,
                   nput, delivered, owed, sent>>

\* line 97: the consumer takes the lock.
GetAcquire(c) ==
    /\ pc[c] = "lock"
    /\ Acquire(c)
    /\ pc' = [pc EXCEPT ![c] = "scan"]
    /\ UNCHANGED <<config, buffers, flag, signaled, locals, clock, waited, wait_left, result,
                   nput, delivered, owed, sent>>

\* mutant: the closest frames are removed before the tolerance is looked at
GetScanRemovesFirst(c) ==
    /\ pc[c] = "scan"
    /\ LET m == FindBestPair(left_frames, right_frames, tolerance)
           elapsed_time == clock[c]
           remaining == RemainingTimeout(timeout[c], elapsed_time)
       IN IF m.found
          THEN /\ best_pair' = [best_pair EXCEPT
                                    ![c] = [left |-> m.left, right |-> m.right]]
               /\ UNCHANGED buffers
               /\ pc' = [pc EXCEPT ![c] = "remove"]
               /\ UNCHANGED <<lock, timeout, timeout_arg, clock, waited, result>>
          ELSE /\ Release
               /\ best_pair' = best_pair
               /\ LET b == ScanPairs(left_frames, right_frames, 1, NoBest)
                  IN /\ left_frames' = DequeRemove(left_frames, b.left)
                     /\ right_frames' = DequeRemove(right_frames, b.right)
               /\ IF timeout[c] = None
                  THEN /\ pc' = [pc EXCEPT ![c] = "wait"]
                       /\ UNCHANGED <<timeout, timeout_arg, clock, waited, result>>
                  ELSE IF remaining <= 0
                  THEN /\ result' = [result EXCEPT ![c] = "Empty"]
                       /\ pc' = [pc EXCEPT ![c] = "idle"]
                       /\ timeout' = [timeout EXCEPT ![c] = None]
                       /\ timeout_arg' = [timeout_arg EXCEPT ![c] = None]
                       /\ clock' = [clock EXCEPT ![c] = 0]
                       /\ waited' = [waited EXCEPT ![c] = 0]
                  ELSE /\ timeout' = [timeout EXCEPT ![c] = remaining]
                       /\ pc' = [pc EXCEPT ![c] = "wait"]
                       /\ UNCHANGED <<timeout_arg, clock, waited, result>>
    /\ owed' = [d \in Consumers |->
                  IF pc'[d] = "idle" THEN 0
                  ELSE StillOwed(owed[d], left_frames', right_frames', tolerance)]
    /\ UNCHANGED <<config, flag, signaled, wait_left, nput, delivered, sent>>

\* lines 99-112 under the lock, up to the removals: the matcher scans the
\* buffers; with a pair within tolerance it goes on to remove it, otherwise get
\* computes the remaining timeout and raises queue.Empty or loops to wait, leaving
\* the lock.  The locals of a call that has ended are dead and are put back to
\* their first values.
GetScan(c) ==
    /\ pc[c] = "scan"
    /\ LET m == FindBestPair(left_frames, right_frames, tolerance)
           elapsed_time == clock[c]
           remaining == RemainingTimeout(timeout[c], elapsed_time)
       IN IF m.found
          THEN /\ best_pair' = [best_pair EXCEPT
                                    ![c] = [left |-> m.left, right |-> m.right]]
               /\ pc' = [pc EXCEPT ![c] = "remove"]
               /\ UNCHANGED <<lock, timeout, timeout_arg, clock, waited, result>>
          ELSE /\ Release
               /\ best_pair' = best_pair
               /\ IF timeout[c] = None
                  THEN /\ pc' = [pc EXCEPT ![c] = "wait"]
                       /\ UNCHANGED <<timeout, timeout_arg, clock, waited, result>>
                  ELSE IF remaining <= 0
                  THEN /\ result' = [result EXCEPT ![c] = "Empty"]
                       /\ pc' = [pc EXCEPT ![c] = "idle"]
                       /\ timeout' = [timeout EXCEPT ![c] = None]
                       /\ timeout_arg' = [timeout_arg EXCEPT ![c] = None]
                       /\ clock' = [clock EXCEPT ![c] = 0]
                       /\ waited' = [waited EXCEPT ![c] = 0]
                  ELSE /\ timeout' = [timeout EXCEPT ![c] = remaining]
                       /\ pc' = [pc EXCEPT ![c] = "wait"]
                       /\ UNCHANGED <<timeout_arg, clock, waited, result>>
    /\ owed' = [d \in Consumers |->
                  IF pc'[d] = "idle" THEN 0
                  ELSE StillOwed(owed[d], left_frames, right_frames, tolerance)]
    /\ UNCHANGED <<config, buffers, flag, signaled, wait_left, nput, delivered, sent>>

\* lines 151-160 and 102, still under the lock: the two frames are removed from
\* the deques, each inside its try/except, and get returns them, leaving the lock.
GetRemove(c) ==
    /\ pc[c] = "remove"
    /\ left_frames' = DequeRemove(left_frames, best_pair[c].left)
    /\ right_frames' = DequeRemove(right_frames, best_pair[c].right)
    /\ delivered' = Append(delivered,
                           [by |-> c, left |-> best_pair[c].left,
                            right |-> best_pair[c].right])
    /\ result' = [result EXCEPT ![c] = "pair"]
    /\ pc' = [pc EXCEPT ![c] = "idle"]
    /\ timeout' = [timeout EXCEPT ![c] = None]
    /\ timeout_arg' = [timeout_arg EXCEPT ![c] = None]
    /\ best_pair' = [best_pair EXCEPT ![c] = NoPair]
    /\ clock' = [clock EXCEPT ![c] = 0]
    /\ waited' = [waited EXCEPT ![c] = 0]
    /\ Release
    /\ owed' = [d \in Consumers |->
                  IF pc'[d] = "idle" THEN 0
                  ELSE StillOwed(owed[d], left_frames', right_frames', tolerance)]
    /\ UNCHANGED <<config, flag, signaled, wait_left, nput, sent>>

\* ---------------------------------------------------------------- clock
\* Bound of the model: the time elapsed since start_time is counted up to
\* MaxTime + 1, which stands for every time past the largest timeout: line 107
\* yields remaining_timeout <= 0 for each of them.
Later(e) == IF e <= MaxTime THEN e + 1 ELSE e

\* a call with a finite timeout is in progress
InTimedGet(c) == pc[c] # "idle" /\ timeout_arg[c] # None
\* the thread sleeps in Event.wait(timeout): not notified, its timeout not run out
Waiting(c) == pc[c] = "blocked" /\ ~signaled[c] /\ wait_left[c] > 0

\* One unit of time passes, wherever the threads stand: blocked in Event.wait,
\* waiting for the lock or between two statements.  The calls with a timeout
\* see their clock advance, and the waits in progress use up their timeout.
\* Time never stops for anyone.
Tick ==
    /\ \E c \in Consumers : InTimedGet(c)
    /\ clock' = [c \in Consumers |-> IF InTimedGet(c) THEN Later(clock[c]) ELSE clock[c]]
    /\ wait_left' = [c \in Consumers |->
                       IF Waiting(c) THEN wait_left[c] - 1 ELSE wait_left[c]]
    /\ waited' = [c \in Consumers |-> IF Waiting(c) THEN waited[c] + 1 ELSE waited[c]]
    /\ UNCHANGED <<config, buffers, lock, flag, signaled, pc, locals, result, nput,
                   delivered, owed, sent>>

\* ---------------------------------------------------------------- specification
\* The steps of the producers and of the consumer threads C, where get is called
\* with a timeout from T and at most N frames are put.
Calls(C, T, N) ==
    \/ \E p \in Producers : nput < N /\ PutAcquire(p)
    \/ \E p \in Producers, ts \in 0..MaxTS, sid \in SensorIds : PutBody(p, ts, sid)
    \/ \E c \in C, t \in T : GetStart(c, t)
    \/ \E c \in C : WaitEnter(c)
    \/ \E c \in C : WaitReturn(c)
    \/ \E c \in C : EventClear(c)
    \/ \E c \in C : GetAcquire(c)
    \/ \E c \in C : GetScan(c)
    \/ \E c \in C : GetRemove(c)

\* Two producers and two consumers, any timeout, time passing anywhere; the
\* runs in which at most FewPuts frames are put.
Next == Calls(Consumers, Timeouts, FewPuts) \/ Tick
Spec == Init /\ [][Next]_vars

\* Two producers and two consumers whose calls never consult the clock after
\* they started or consult it within the same unit of time: get(None) and
\* get(0) with no time passing; the runs in which at most MaxPuts frames are put.
Untimed == {None, 0}
NextFrames == Calls(Consumers, Untimed, MaxPuts)
FrameSpec == Init /\ [][NextFrames]_vars

\* Scheduling: a thread that can take its next step takes it, the holder of the
\* lock leaves it, a thread waiting for the lock gets it, and time goes on.
\* Nothing obliges anyone to call put or get.
ConsumerStep(c) ==
    WaitEnter(c) \/ WaitReturn(c) \/ EventClear(c) \/ GetScan(c) \/ GetRemove(c)

Fairness(C) ==
    /\ \A c \in C : WF_vars(ConsumerStep(c)) /\ SF_vars(GetAcquire(c))
    /\ WF_vars(\E p \in Producers, ts \in 0..MaxTS, sid \in SensorIds : PutBody(p, ts, sid))
    /\ WF_vars(Tick)

\* Two producers and the one consumer thread of example.py, fairly scheduled.
Solo == {"c1"}
NextSolo == Calls(Solo, Timeouts, FewPuts) \/ Tick
LiveSpec == Init /\ [][NextSolo]_vars /\ Fairness(Solo)

\* ---------------------------------------------------------------- claims
InGet(c) == pc[c] # "idle"
HasPair == Deliverable(left_frames, right_frames, tolerance)
Last(seq) == seq[Len(seq)]
Diff(l, r) == Abs(l.timestamp - r.timestamp)
Elems(buf) == {buf[i] : i \in 1..Len(buf)}

\* a step in which some get returns a pair, taken from the buffers as they were
Delivers == Len(delivered') = Len(delivered) + 1
\* the step of consumer c that ends its matcher run and leaves the lock
ScanStep(c) == pc[c] \in {"scan", "remove"} /\ pc'[c] \notin {"scan", "remove"}
\* the step of a producer that runs the body of put
PutStep == lock \in Producers /\ lock' = Free

\* c is blocked in wait(None) and no set() has notified it: only a further put
\* can end this wait.
SleepsForGood(c) == pc[c] = "blocked" /\ wait_left[c] = None /\ ~signaled[c]
\* another consumer is on its way to a scan
OthersMayTake(c) == \E d \in Consumers \ {c} : InGet(d) /\ ~SleepsForGood(d)

\* C1: while a pair within tolerance is buffered, a get call in progress returns
\* a pair without any further put: no call sleeps in wait(None), un-notified,
\* on a buffered pair that no other consumer is about to take.
C1_PairIsDelivered ==
    \A c \in Consumers : (HasPair /\ SleepsForGood(c)) => OthersMayTake(c)

\* C2: get(timeout=T) raises queue.Empty only when T has elapsed since the call
\* began, and after a scan that finds no pair the next wait gets T minus the time
\* elapsed since the call began.
C2_BudgetIsTMinusElapsed ==
    [][\A c \in Consumers :
          (ScanStep(c) /\ ~Delivers /\ timeout_arg[c] >= 0) =>
              IF result'[c] = "Empty"
              THEN clock[c] >= timeout_arg[c]
              ELSE timeout'[c] = timeout_arg[c] - clock[c]]_vars

\* C3: a returned pair (l, r) has l in the left buffer and r in the right buffer
\* at the scan, and no buffered combination has a smaller timestamp difference.
C3_MinimumDifference ==
    [][Delivers =>
          LET d == Last(delivered')
          IN /\ d.left \in Elems(left_frames)
             /\ d.right \in Elems(right_frames)
             /\ \A l \in Elems(left_frames), r \in Elems(right_frames) :
                    Diff(d.left, d.right) <= Diff(l, r)]_vars

\* a pair was returned while an older left frame, still buffered, was further
\* from the returned right frame
C3_Witness ==
    \E i \in 1..Len(delivered), k \in 1..Len(left_frames) :
        /\ left_frames[k].id < delivered[i].left.id
        /\ Diff(left_frames[k], delivered[i].right)
               > Diff(delivered[i].left, delivered[i].right)

\* C4: every returned pair is within the tolerance; a scan of buffers in which
\* every combination exceeds the tolerance returns no pair, takes nothing, and
\* the call raises queue.Empty if its timeout has run out and waits again if not.
C4_WithinTolerance ==
    [][/\ Delivers => Diff(Last(delivered').left, Last(delivered').right) <= tolerance
       /\ \A c \in Consumers :
             (ScanStep(c) /\ ~HasPair) =>
                 /\ ~Delivers
                 /\ UNCHANGED buffers
                 /\ \/ result'[c] = "Empty" /\ pc'[c] = "idle" /\ timeout[c] # None
                    \/ result'[c] = "none" /\ pc'[c] = "wait"]_vars

\* a call ended with queue.Empty on buffers that hold a left and a right frame,
\* further apart than the tolerance; no put has come since the call cleared the event
C4_Witness ==
    \E c \in Consumers :
        /\ pc[c] = "idle" /\ result[c] = "Empty"
        /\ ~flag /\ lock = Free
        /\ left_frames # <<>> /\ right_frames # <<>>
        /\ ~HasPair

\* C5: no frame is returned by two get calls, nor twice by one.
C5_AtMostOnce ==
    \A i, j \in 1..Len(delivered) :
        i # j => /\ delivered[i].left.id # delivered[j].left.id
                 /\ delivered[i].right.id # delivered[j].right.id

\* two consumers have each returned a pair
C5_Witness ==
    /\ Len(delivered) = 2
    /\ delivered[1].by # delivered[2].by

\* C6: neither buffer is ever longer than buffer_size, and a put on a full buffer
\* takes out its oldest frame and appends the new one behind the others, which
\* keep their order.
C6_Capacity ==
    /\ [](Len(left_frames) <= buffer_size /\ Len(right_frames) <= buffer_size)
    /\ [][/\ (PutStep /\ left_frames' # left_frames /\ Len(left_frames) = buffer_size)
               => /\ Len(left_frames') = buffer_size
                  /\ SubSeq(left_frames', 1, buffer_size - 1) = Tail(left_frames)
                  /\ Last(left_frames').id = nput'
          /\ (PutStep /\ right_frames' # right_frames /\ Len(right_frames) = buffer_size)
               => /\ Len(right_frames') = buffer_size
                  /\ SubSeq(right_frames', 1, buffer_size - 1) = Tail(right_frames)
                  /\ Last(right_frames').id = nput']_vars

\* the left buffer is full after more left frames than it holds were put, and
\* nothing was returned
C6_Witness ==
    /\ delivered = <<>>
    /\ right_frames = <<>>
    /\ Len(left_frames) = buffer_size
    /\ nput > buffer_size
    /\ left_frames[1].id > 1

\* C7 as stated: the frames of one channel are returned in the order they were put.
C7_ArrivalOrder ==
    \A i, j \in 1..Len(delivered) :
        i < j => /\ delivered[i].left.id < delivered[j].left.id
                 /\ delivered[i].right.id < delivered[j].right.id

\* C7, amended: a frame is returned ahead of a frame of its channel that was put
\* before it and is still buffered only when its timestamp is strictly closer to
\* the partner it is returned with; of equally close frames the one put first goes
\* first.
C7_OvertakenOnlyByCloser ==
    [][Delivers =>
          LET d == Last(delivered')
          IN /\ \A a \in Elems(left_frames) :
                    a.id < d.left.id => Diff(d.left, d.right) < Diff(a, d.right)
             /\ \A a \in Elems(right_frames) :
                    a.id < d.right.id => Diff(d.left, d.right) < Diff(d.left, a)]_vars

\* a left frame was returned after a left frame that was put later
C7_Witness ==
    \E i, j \in 1..Len(delivered) :
        i < j /\ delivered[j].left.id < delivered[i].left.id

\* C8: of the pairs within tolerance that are buffered, get returns the most recent
\* one: no buffered pair within tolerance is made of two frames that both arrived
\* after the frames of the returned pair.
C8_MostRecentPair ==
    [][Delivers =>
          LET d == Last(delivered')
          IN ~ \E l \in Elems(left_frames), r \in Elems(right_frames) :
                   /\ Diff(l, r) <= tolerance
                   /\ l.id > d.left.id
                   /\ r.id > d.right.id]_vars

\* C9: a consumer that was inside get when a put made a pair is not left asleep
\* for good while the frame of that put is still buffered with a partner.
C9_NoLostWakeup ==
    \A c \in Consumers : (owed[c] # 0 /\ SleepsForGood(c)) => OthersMayTake(c)

\* C10: a get with a finite timeout T ends; it ends with queue.Empty when its last
\* scan finds no pair within tolerance; the time it has spent blocked never
\* exceeds T.
C10_TimedGetEnds ==
    /\ [](\A c \in Consumers :
             (InGet(c) /\ timeout_arg[c] >= 0) => waited[c] <= timeout_arg[c])
    /\ [][\A c \in Consumers :
             (InGet(c) /\ ~InGet(c)' /\ ~HasPair) => result'[c] = "Empty"]_vars
    /\ \A c \in Solo : (InGet(c) /\ timeout_arg[c] >= 0) ~> ~InGet(c)

\* a call with timeout MaxTime is at its scan in a later cycle than its first,
\* has been blocked for MaxTime units in all, and finds no pair
C10_Witness ==
    \E c \in Consumers :
        /\ pc[c] = "scan"
        /\ timeout_arg[c] = MaxTime
        /\ waited[c] = MaxTime
        /\ timeout[c] < timeout_arg[c]
        /\ ~HasPair

\* position of the frame with this id in a buffer
PosOf(buf, id) == CHOOSE k \in 1..Len(buf) : buf[k].id = id

\* C11: of the buffered combinations of the smallest timestamp difference get
\* returns the first in scan order: no combination as close as the returned one
\* has an earlier left frame, or the same left frame and an earlier right frame.
C11_FirstInScanOrder ==
    [][Delivers =>
          LET d == Last(delivered')
              kl == PosOf(left_frames, d.left.id)
              kr == PosOf(right_frames, d.right.id)
          IN \A i \in 1..Len(left_frames), j \in 1..Len(right_frames) :
                 Diff(left_frames[i], right_frames[j]) <= Diff(d.left, d.right)
                     => (kl < i \/ (kl = i /\ kr <= j))]_vars

\* a pair was returned while a left frame put after the returned one, and before
\* the returned right frame, was buffered just as close to that right frame
C11_Witness ==
    \E i \in 1..Len(delivered), k \in 1..Len(left_frames) :
        /\ left_frames[k].id > delivered[i].left.id
        /\ left_frames[k].id < delivered[i].right.id
        /\ Diff(left_frames[k], delivered[i].right)
               = Diff(delivered[i].left, delivered[i].right)

\* the frames of one sensor among those put, in the order they were put
OfSensor(seq, sid) == SelectSeq(seq, LAMBDA f : f.sensor_id = sid)
\* the last n elements of a sequence, all of them when it has fewer
LastN(seq, n) ==
    SubSeq(seq, (IF Len(seq) > n THEN Len(seq) - n ELSE 0) + 1, Len(seq))

\* C12: as long as get has not been called, each buffer holds exactly the last
\* min(n, buffer_size) of the n frames put on its channel, oldest first.
C12_LastFramesKept ==
    NoGetYet =>
        /\ left_frames = LastN(OfSensor(sent, 0), buffer_size)
        /\ right_frames = LastN(OfSensor(sent, 1), buffer_size)

\* more left frames than the buffer holds were put, between them a right frame,
\* and get has not been called
C12_Witness ==
    /\ NoGetYet
    /\ Len(OfSensor(sent, 0)) > buffer_size
    /\ buffer_size > 1
    /\ right_frames # <<>>
    /\ right_frames[1].id \notin {1, nput}

\* everything but the lock and the history of puts
but_lock == <<config, buffers, flag, signaled, pc, locals, clock, waited, wait_left, result,
              nput, delivered, owed>>
\* the step of a producer that enters put and takes the lock
PutEnter == lock = Free /\ lock' \in Producers
\* a put step that appends the frame with the next id to buf and nothing else
Appends(buf, sid) ==
    /\ Len(buf') >= 1
    /\ Last(buf').id = nput + 1
    /\ Last(buf').sensor_id = sid
    /\ \A k \in 1..(Len(buf') - 1) : buf'[k] \in Elems(buf)

\* C13: a put of a frame whose sensor_id is neither 0 nor 1 returns and leaves the
\* buffers, the event and every consumer as they were, so that the queue is in the
\* state it had before the call: only frames of sensor 0 are in the left buffer
\* and of sensor 1 in the right, entering put changes nothing but the lock, and
\* the body of put either appends the frame to the buffer of its sensor and sets
\* the event or changes nothing but the lock.
C13_UnknownSensorDiscarded ==
    /\ [](/\ \A f \in Elems(left_frames) : f.sensor_id = 0
          /\ \A f \in Elems(right_frames) : f.sensor_id = 1)
    /\ [][PutEnter => UNCHANGED but_lock]_vars
    /\ [][PutStep =>
             \/ Appends(left_frames, 0) /\ flag' /\ nput' = nput + 1
                   /\ UNCHANGED right_frames
             \/ Appends(right_frames, 1) /\ flag' /\ nput' = nput + 1
                   /\ UNCHANGED left_frames
             \/ UNCHANGED but_lock]_vars

\* a frame of an unknown sensor was put between a left and a right frame, the put
\* has returned, and the two form a pair within tolerance
C13_Witness ==
    /\ lock = Free
    /\ Len(sent) = 3
    /\ sent[2].sensor_id \notin {0, 1}
    /\ left_frames = <<sent[1]>>
    /\ right_frames = <<sent[3]>>
    /\ HasPair

\* C14: __init__ raises ValueError when buffer_size < 1, before a deque is made,
\* and returns for every buffer_size >= 1 with deques of that maxlen; the maxlen
\* of a queue is never below 1, and nothing is ever put on or got from a queue
\* whose construction failed.
C14_CapacityAtLeastOne ==
    /\ (buffer_size_arg < 1) <=> (raised = "ValueError")
    /\ raised = "none" => (buffer_size = buffer_size_arg /\ buffer_size >= 1)
    /\ raised = "ValueError" =>
           /\ buffer_size = 0 /\ left_frames = <<>> /\ right_frames = <<>>
           /\ nput = 0 /\ lock = Free /\ \A c \in Consumers : ~InGet(c)

\* __init__ was called with buffer_size 0 and has raised
C14_Witness == buffer_size_arg = 0 /\ raised = "ValueError"

\* consumer c is inside the matcher, at its scan or between scan and removals
InMatcher(c) == pc[c] \in {"scan", "remove"}

\* C15: the scan of the matcher and its two removals are one critical section:
\* a consumer is inside the matcher only while it holds the lock, the lock goes
\* from one thread to another only by being released, the buffers are changed
\* only by the thread that holds the lock, nothing changes them between a scan
\* and its removals, and at the removals both chosen frames are in their buffers,
\* each the first element equal to itself, so that neither remove raises
\* ValueError and the pair returned was buffered when it was returned; a get that
\* returns leaves what _find_and_remove_best_pair, run in one piece on the
\* buffers as they are at the removals, returns and leaves.
C15_OneCriticalSection ==
    /\ [](\A c \in Consumers :
             /\ InMatcher(c) => lock = c
             /\ pc[c] = "remove" =>
                   /\ IndexOf(left_frames, best_pair[c].left, 1) # 0
                   /\ IndexOf(right_frames, best_pair[c].right, 1) # 0
                   /\ left_frames[IndexOf(left_frames, best_pair[c].left, 1)].id
                          = best_pair[c].left.id
                   /\ right_frames[IndexOf(right_frames, best_pair[c].right, 1)].id
                          = best_pair[c].right.id)
    /\ [][/\ lock' # lock => (lock = Free \/ lock' = Free)
          /\ buffers' # buffers => (lock # Free /\ lock' = Free)
          /\ \A c \in Consumers :
                (pc[c] = "remove" /\ pc'[c] = "remove") => UNCHANGED buffers
          /\ Delivers =>
                LET m == FindAndRemoveBestPair(left_frames, right_frames, tolerance)
                IN /\ m.found
                   /\ Last(delivered').left = m.left
                   /\ Last(delivered').right = m.right
                   /\ left_frames' = m.lefts
                   /\ right_frames' = m.rights]_vars

\* a consumer is between its scan and its removals on full buffers while a
\* producer could put one more frame and the other consumer waits for the lock
C15_Witness ==
    \E c \in Consumers :
        /\ pc[c] = "remove"
        /\ Len(left_frames) = buffer_size
        /\ Len(right_frames) = buffer_size
        /\ nput < MaxPuts
        /\ \E d \in Consumers \ {c} : pc[d] = "lock"

\* a sequence without its k-th element
Without(buf, k) == SubSeq(buf, 1, k - 1) \o SubSeq(buf, k + 1, Len(buf))

\* C16: a get that returns (l, r) takes exactly l out of the left buffer and
\* exactly r out of the right buffer: each buffer is left one shorter, with its
\* other frames in the order they had.
C16_ExactlyThePair ==
    [][Delivers =>
          LET d == Last(delivered')
          IN \E i \in 1..Len(left_frames), j \in 1..Len(right_frames) :
                 /\ left_frames[i] = d.left
                 /\ right_frames[j] = d.right
                 /\ left_frames' = Without(left_frames, i)
                 /\ right_frames' = Without(right_frames, j)]_vars

\* a pair was returned and a left frame equal to the returned one, key by key,
\* which was buffered with it, is still in the left buffer
C16_Witness ==
    \E i \in 1..Len(delivered), k \in 1..Len(left_frames) :
        /\ DictEq(left_frames[k], delivered[i].left)
        /\ left_frames[k].id < delivered[i].right.id

\* C17: put always completes.  A consumer holds the lock only inside the matcher,
\* never while it waits on the event; whoever holds the lock can take its next
\* step at once, the body of put and the matcher waiting for nothing; and the
\* step that ends the matcher releases the lock whether get returns a pair,
\* raises queue.Empty or loops back to wait, as does the step that ends put.
C17_PutCompletes ==
    /\ [](\A c \in Consumers :
             /\ lock = c => InMatcher(c)
             /\ InMatcher(c) => ENABLED (GetScan(c) \/ GetRemove(c)))
    /\ [](\A p \in Producers :
             lock = p => ENABLED (\E ts \in 0..MaxTS : PutBody(p, ts, 0)))
    /\ [][/\ \A c \in Consumers : ScanStep(c) => lock' = Free
          /\ (lock \in Producers /\ lock' # lock) => lock' = Free]_vars

\* a consumer was blocked in wait(None) when a put came; the put has appended
\* its frame, notified the consumer and returned
C17_Witness ==
    \E c \in Consumers :
        /\ pc[c] = "blocked" /\ wait_left[c] = None
        /\ signaled[c]
        /\ lock = Free
        /\ left_frames # <<>>

\* C18: get ends only out of the matcher, which it enters after every wait, and
\* it raises queue.Empty only when no buffered left/right combination is within
\* tolerance at that scan; with a pair within tolerance in the buffers the scan
\* goes on to return it, also after a wait that timed out and with timeout 0.
C18_EmptyOnlyWithoutPair ==
    [][\A c \in Consumers :
          /\ (InGet(c) /\ ~InGet(c)') => ScanStep(c)
          /\ (pc[c] \in {"blocked", "clear", "lock"} /\ pc'[c] # pc[c])
                 => pc'[c] \in {"clear", "lock", "scan"}
          /\ result'[c] = "Empty" /\ result[c] # "Empty" => ~HasPair
          /\ (pc[c] = "scan" /\ pc'[c] # "scan" /\ HasPair) => pc'[c] = "remove"]_vars

\* a call with timeout 0 has come through its wait and holds the lock for its
\* scan, the event cleared, on buffers that hold a pair within tolerance
C18_Witness ==
    \E c \in Consumers :
        /\ pc[c] = "scan"
        /\ timeout_arg[c] = 0
        /\ ~flag
        /\ lock = c
        /\ HasPair

\* the ids of the frames in a buffer
Ids(buf) == {buf[k].id : k \in 1..Len(buf)}

\* C19: a matcher run that finds no pair, whether get then raises queue.Empty or
\* waits again, leaves both buffers as they were; a frame leaves its buffer only
\* as the oldest frame of a full buffer in a put to that buffer, or as a member of
\* the pair that is returned.
C19_NoPairNoRemoval ==
    [][/\ \A c \in Consumers : (ScanStep(c) /\ ~Delivers) => UNCHANGED buffers
       /\ \A c \in Consumers : (pc[c] = "scan" /\ pc'[c] = "remove") => UNCHANGED buffers
       /\ \A id \in Ids(left_frames) \ Ids(left_frames') :
             \/ /\ PutStep /\ Len(left_frames) = buffer_size
                /\ id = left_frames[1].id /\ Last(left_frames').id = nput'
             \/ Delivers /\ id = Last(delivered').left.id
       /\ \A id \in Ids(right_frames) \ Ids(right_frames') :
             \/ /\ PutStep /\ Len(right_frames) = buffer_size
                /\ id = right_frames[1].id /\ Last(right_frames').id = nput'
             \/ Delivers /\ id = Last(delivered').right.id]_vars

\* a call has ended with queue.Empty, nothing was ever returned, and every frame
\* put so far is still buffered, left and right frames further apart than the
\* tolerance
C19_Witness ==
    \E c \in Consumers :
        /\ result[c] = "Empty" /\ pc[c] = "idle"
        /\ delivered = <<>>
        /\ Len(left_frames) + Len(right_frames) = nput
        /\ Len(left_frames) >= 1 /\ Len(right_frames) >= 1
        /\ ~HasPair

====
